---- MODULE Spec2Model ----
(***************************************************************************)
(* QR decoding cascade of app_fun_qrdetection_FIXED.py: the model pool     *)
(* (module-level QReader singletons), the cascade imagen_a_url and the     *)
(* process-wide detection metrics.                                         *)
(*                                                                         *)
(* Each worker is one Python call frame.  Under Spec the calls never       *)
(* overlap (imagen_a_url is called synchronously from the async handler of *)
(* api_main_CORRECTIONS.py, so one call finishes before the next starts);  *)
(* under SpecConc the workers are threads that interleave between the      *)
(* steps below.  The module holds no lock, so every step boundary is a     *)
(* possible thread switch.                                                 *)
(*                                                                         *)
(* avg_latency_ms is kept as an exact fraction <<numerator, denominator>>: *)
(* the model abstracts floating-point rounding.                            *)
(***************************************************************************)
EXTENDS Integers, Sequences, FiniteSets, TLC

\* ---------------------------------------------------------------- bounds
NumWorkers == 2      \* call frames that may exist at once
MaxCalls   == 2      \* imagen_a_url calls started in one run
MaxLatency == 2      \* latencies are drawn from 1..MaxLatency
MaxRaceCalls == 3    \* imagen_a_url calls started in one run of SpecRace
MaxPosts   == 2      \* POST /detect requests served in one run

\* ------------------------------------------------------ program constants
NumThreads == 4      \* torch.set_num_threads(4)
MediumThreads == 6   \* torch.set_num_threads(6) of get_medium_reader
Threshold == 65      \* `confidence > 0.65`, in hundredths
AssumedConfidence == 100   \* `confidence = 1.0`, in hundredths

Workers   == 1..NumWorkers
Latencies == 1..MaxLatency
Payloads  == {"u1", "u2"}      \* non-empty decoded strings
None      == "None"            \* Python's None (never a payload)

\* the strategy list with the raw image tried first
strategies_RawFirst == <<"raw", "equalized", "binary">>

\* strategies = [('equalized', ..), ('raw', ..), ('binary', ..)]
strategies == <<"equalized", "raw", "binary">>

\* the three guarded blocks inside the strategy loop, in source order
methods == <<"CV2", "CV2_CURVED", "PYZBAR">>

Classes == {"small", "medium", "large"}

\* strategy_name.upper()
Upper(s) ==
    CASE s = "equalized" -> "EQUALIZED"
      [] s = "raw"       -> "RAW"
      [] s = "binary"    -> "BINARY"

\* the f-string of each return statement: f'CV2_{strategy_name.upper()}', ...
Label(method, s) == method \o "_" \o Upper(s)

\* the f-string prefix of the learned tiers
TierName(c) ==
    CASE c = "small"  -> "QREADER_S"
      [] c = "medium" -> "QREADER_M"
      [] c = "large"  -> "QREADER_L"

\* the curved detector's block counting under the plain detector's key
SuccessKey_CurvedAsPlain(method) ==
    CASE method \in {"CV2", "CV2_CURVED"} -> "cv2_success"
      [] method = "PYZBAR"     -> "pyzbar_success"
      [] method = "QREADER_S"  -> "qreader_small_success"
      [] method = "QREADER_M"  -> "qreader_medium_success"
      [] method = "QREADER_L"  -> "qreader_large_success"

\* the counter each accepting block increments
SuccessKey(method) ==
    CASE method = "CV2"        -> "cv2_success"
      [] method = "CV2_CURVED" -> "cv2_curved_success"
      [] method = "PYZBAR"     -> "pyzbar_success"
      [] method = "QREADER_S"  -> "qreader_small_success"
      [] method = "QREADER_M"  -> "qreader_medium_success"
      [] method = "QREADER_L"  -> "qreader_large_success"

SuccessKeys == {"cv2_success", "cv2_curved_success", "pyzbar_success",
                "qreader_small_success", "qreader_medium_success",
                "qreader_large_success"}
OutcomeKeys == SuccessKeys \cup {"total_failures"}
CounterKeys == OutcomeKeys \cup {"total_requests"}

\* the dict literal of _detection_metrics (its counters)
ZeroMetrics == [k \in CounterKeys |-> 0]

RECURSIVE GCD(_, _)
GCD(a, b) == IF b = 0 THEN a ELSE GCD(b, a % b)

\* a fraction in lowest terms
Norm(n, d) == LET g == GCD(n, d) IN <<n \div g, d \div g>>

\* the old average weighted with total_requests instead of total_requests - 1
NewAverage_WeightedByTotal(avg, total, latency) ==
    Norm(avg[1] * total + latency * avg[2], avg[2] * total)

\* (avg * (total_requests - 1) + latency) / total_requests, total_requests > 0
NewAverage(avg, total, latency) ==
    Norm(avg[1] * (total - 1) + latency * avg[2], avg[2] * total)

RECURSIVE SumOver(_, _)
SumOver(f, keys) ==
    IF keys = {} THEN 0
    ELSE LET k == CHOOSE x \in keys : TRUE
         IN f[k] + SumOver(f, keys \ {k})

\* ------------------------------------------------------- decoder outcomes
\* What one library call can produce.  kind "raise" is an exception inside
\* the call; otherwise out is what the code tests.
\* cv2.QRCodeDetector().detectAndDecode / detectAndDecodeCurved: a string,
\* empty when nothing was decoded.
Cv2Outcomes ==
    {[kind |-> "value", out |-> <<p>>] : p \in Payloads \cup {""}}
      \cup {[kind |-> "raise", out |-> <<>>]}

\* pyzbar decode() filtered to QRCODE, then qr_codes[0].data.decode(): the
\* list of decoded data strings (at most one symbol is modelled); decoding
\* the bytes may raise.
PyzbarOutcomes ==
    {[kind |-> "value", out |-> <<>>]}
      \cup {[kind |-> "value", out |-> <<p>>] : p \in Payloads \cup {""}}
      \cup {[kind |-> "raise", out |-> <<>>]}

\* QReader.detect_and_decode: a tuple with one entry per detection, None
\* for a detection that could not be decoded.
QReaderOutcomes ==
    {[kind |-> "value", out |-> <<>>]}
      \cup {[kind |-> "value", out |-> <<p>>] : p \in Payloads \cup {None}}
      \cup {[kind |-> "raise", out |-> <<>>]}

DetOutcomes(method) ==
    IF method = "PYZBAR" THEN PyzbarOutcomes ELSE Cv2Outcomes

\* `if result:` of the two OpenCV blocks; `if qr_codes:` of the pyzbar block
DetAccepts(method, o) ==
    /\ o.kind = "value"
    /\ IF method = "PYZBAR" THEN o.out # <<>> ELSE o.out[1] # ""

\* `if detected_data and len(detected_data) > 0 and detected_data[0]:`
QReaderAccepts(o) ==
    /\ o.kind = "value"
    /\ o.out # <<>>
    /\ o.out[1] # None
    /\ o.out[1] # ""

\* ------------------------------------------------------------ input classes
\* What the environment of a run may hand to the code: whether the bytes
\* are a raster, what each library call produces, whether a constructor
\* succeeds.
AnyInput ==
    [readable |-> BOOLEAN,
     det      |-> [method \in {"CV2", "CV2_CURVED", "PYZBAR"} |-> DetOutcomes(method)],
     qreader  |-> QReaderOutcomes,
     ctor     |-> BOOLEAN]

\* Readable images that defeat every deterministic decoder, and libraries
\* that do not fail: the requests that reach the learned tiers.
HardInput ==
    [readable |-> {TRUE},
     det      |-> [method \in {"CV2", "CV2_CURVED", "PYZBAR"} |->
                     {o \in DetOutcomes(method) :
                        o.kind = "value" /\ ~DetAccepts(method, o)}],
     qreader  |-> {o \in QReaderOutcomes : o.kind = "value"},
     ctor     |-> {TRUE}]

\* ---------------------------------------------------------- hybrid service
\* qr_fallback_small_medium.py: a single-threaded HTTPServer, so each
\* request handler runs from its first statement to its last before the
\* next one starts.
HybridKeys == {"total_requests", "small_success", "medium_success",
               "total_failures", "small_time_ms", "medium_time_ms"}

\* confidences a detection may carry, in hundredths
Confidences == {50, Threshold, 80}

\* reader.detect_and_decode(img): a tuple with one entry per detection; an
\* entry is None, the decoded string, or a tuple (data, bbox, confidence)
HybridOutcomes ==
    {[kind |-> "raise", out |-> <<>>], [kind |-> "value", out |-> <<>>]}
      \cup {[kind |-> "value", out |-> <<[scored |-> FALSE, data |-> d, confidence |-> 0]>>] :
               d \in {None, "u1"}}
      \cup {[kind |-> "value", out |-> <<[scored |-> TRUE, data |-> "u1", confidence |-> c]>>] :
               c \in Confidences}

\* no detect_with_confidence call was made
NoAttempt == [success |-> FALSE, data |-> None, confidence |-> 0, latency_ms |-> 0,
              model |-> "none"]

\* detect_with_confidence, for a detect_and_decode that returned o.out
detect_with_confidence(o, latency, model_name) ==
    IF o.out # <<>>
    THEN [success |-> TRUE, data |-> o.out[1].data,
          confidence |-> IF o.out[1].scored THEN o.out[1].confidence
                         ELSE AssumedConfidence,
          latency_ms |-> latency, model |-> model_name]
    ELSE [success |-> FALSE, data |-> None, confidence |-> 0,
          latency_ms |-> latency, model |-> model_name]

\* the small tier without the confidence gate
SmallAccepts_Ungated(r) == r.success

\* `if small_result['success'] and small_result['confidence'] > 0.65:`
SmallAccepts(r) == r.success /\ r.confidence > Threshold

\* `if medium_result['success']:`
MediumAccepts(r) == r.success

\* what the client of the last request got, and what the handler did for it
NoResponse ==
    [status |-> 0, success |-> FALSE, data |-> None, confidence |-> 0,
     model_used |-> "", fallback_used |-> FALSE,
     small_result |-> NoAttempt, medium_result |-> NoAttempt,
     invoked |-> {}, escalated |-> FALSE, counted |-> {},
     threads_at |-> [c \in {"small", "medium"} |-> 0], delivered |-> FALSE]

\* the process before `if __name__ == '__main__':` has run
HybridBoot ==
    [phase |-> "boot", qr_reader_small |-> 0, qr_reader_medium |-> 0,
     grad |-> TRUE, threads |-> 0, metrics |-> [k \in HybridKeys |-> 0],
     constructed |-> [c \in {"small", "medium"} |-> 0],
     posts |-> 0, detects |-> 0, last |-> NoResponse]

\* `metrics[key] += n` of the handler
Add(h, key, n) == [h EXCEPT !.metrics[key] = @ + n]

\* `metrics['<outcome>'] += 1`, noted in the record of the request
Count(h, key) ==
    [Add(h, key, 1) EXCEPT !.last.counted = @ \cup {key}]

\* the handler has sent a response: the fields of `response` are filled in
Answered(h, status, success, data, confidence, model_used, fallback_used) ==
    [h EXCEPT !.last.status = status, !.last.success = success,
              !.last.data = data, !.last.confidence = confidence,
              !.last.model_used = model_used,
              !.last.fallback_used = fallback_used,
              !.last.delivered = TRUE]

\* `except Exception as e:` of do_POST: total_failures += 1, send_error(500)
Failed500(h) ==
    Answered(Count(h, "total_failures"), 500, FALSE, None, 0, "", FALSE)

\* send_response / end_headers / wfile.write inside the try block: when the
\* write raises (the client has gone), the except clause of do_POST runs
Written(h, write_ok) ==
    IF write_ok THEN h
    ELSE [Count(h, "total_failures") EXCEPT !.last.delivered = FALSE]

\* reader.detect_and_decode(img) is entered on the handle of class c, under
\* the thread count in effect in the process
Invoked(h, c) ==
    [h EXCEPT !.last.invoked = @ \cup {c}, !.last.threads_at[c] = h.threads]

\* get_small_reader: on None the torch settings, then the constructor,
\* which may raise (ok = FALSE) and then leaves the global None
get_small_reader(h, ok) ==
    IF h.qr_reader_small # 0 THEN [h |-> h, raised |-> FALSE]
    ELSE LET t == [h EXCEPT !.grad = FALSE, !.threads = NumThreads]
         IN IF ok
            THEN [h |-> [t EXCEPT !.qr_reader_small = 1, !.constructed["small"] = @ + 1],
                  raised |-> FALSE]
            ELSE [h |-> t, raised |-> TRUE]

\* get_medium_reader: the same with six threads
get_medium_reader(h, ok) ==
    IF h.qr_reader_medium # 0 THEN [h |-> h, raised |-> FALSE]
    ELSE LET t == [h EXCEPT !.grad = FALSE, !.threads = MediumThreads]
         IN IF ok
            THEN [h |-> [t EXCEPT !.qr_reader_medium = 1, !.constructed["medium"] = @ + 1],
                  raised |-> FALSE]
            ELSE [h |-> t, raised |-> TRUE]

\* LEVEL 2 and LEVEL 3 of do_POST once get_medium_reader() has returned:
\* the medium detection o with latency lat, then the response
MediumLevel(h, o, lat, write_ok) ==
    LET h1 == Invoked(h, "medium")
        r  == detect_with_confidence(o, lat, "medium")
        h2 == [Add(h1, "medium_time_ms", lat) EXCEPT !.last.medium_result = r]
    IN IF o.kind = "raise" THEN Failed500(h1)
       ELSE IF MediumAccepts(r)
       THEN Written(Answered(Count(h2, "medium_success"), 200, TRUE, r.data,
                             r.confidence, "medium", TRUE), write_ok)
       ELSE Written(Answered(Count(h2, "total_failures"), 200, FALSE, None, 0,
                             "none", TRUE), write_ok)

\* ------------------------------------------------------------------ state
VARIABLES
    handle,          \* _qreader_small/_medium/_large: 0 is None, else the instance
    torch,           \* process-wide torch settings
    metrics,         \* the counters of _detection_metrics
    avg_latency_ms,  \* _detection_metrics['avg_latency_ms'], a fraction
    loc,             \* each worker's call frame
    constructions,   \* observer: QReader instances constructed, per size class
    started,         \* observer: imagen_a_url calls started in this run
    completed,       \* observer: imagen_a_url calls ended since the last reset
    latSum,          \* observer: latencies recorded since the last reset
    image,           \* the bytes every call of a run of SpecTwice is given
    hybrid           \* the process of qr_fallback_small_medium.py

vars == <<handle, torch, metrics, avg_latency_ms, loc, constructions,
          started, completed, latSum, image, hybrid>>

pool      == <<handle, torch, constructions>>
telemetry == <<metrics, avg_latency_ms, latSum>>
counts    == <<started, completed>>
detector  == <<handle, torch, metrics, avg_latency_ms, loc, constructions,
               started, completed, latSum>>

\* a frame that is not executing anything
IdleFrame ==
    [pc |-> "idle", op |-> "", ctx |-> "", cls |-> "", i |-> 0, m |-> 0,
     tmp |-> 0, ref |-> "", key |-> "", payload |-> None, label |-> "",
     exc |-> FALSE, reader |-> 0, trace |-> <<>>, bumped |-> <<>>,
     accepted |-> FALSE, preOk |-> FALSE, raised |-> {},
     ctorFailed |-> {}, built |-> {}, cancelledAt |-> -1]

\* no particular bytes: every call is given bytes of its own
NoImage == [readable |-> TRUE, det |-> <<>>, qreader |-> <<>>]

\* the two processes right after their modules are imported
Start ==
    /\ handle = [c \in Classes |-> 0]
    /\ torch = [grad |-> TRUE, threads |-> 0, perCall |-> FALSE]
    /\ metrics = ZeroMetrics
    /\ avg_latency_ms = <<0, 1>>
    /\ loc = [w \in Workers |-> IdleFrame]
    /\ constructions = [c \in Classes |-> 0]
    /\ started = 0
    /\ completed = 0
    /\ latSum = 0
    /\ hybrid = HybridBoot

Init == Start /\ image = NoImage

InFlight(w) == loc[w].pc \notin {"idle", "done"}
AllIdle == \A w \in Workers : loc[w].pc = "idle"

\* the None test left out: a new instance on every call
IsNone_Always(h) == TRUE

\* `x is None` of the getters and of initialize_qreaders
IsNone(h) == h = 0

\* the value `+= 1` stores back
Incremented(v) == v + 1

\* ------------------------------------------------- control flow of a call
\* the frame once the call has returned (payload, label)
Finished(f, payload, label) ==
    [f EXCEPT !.pc = "done", !.payload = payload, !.label = label]

\* the frame once an exception has left the call
Propagated(f) ==
    [f EXCEPT !.pc = "done", !.exc = TRUE, !.payload = None, !.label = ""]

\* the frame entering `<key> += 1; latency; avg update; return` of a block
EnterTail(f, ctx, key, payload, label) ==
    [f EXCEPT !.pc = "cnt_load", !.ctx = ctx, !.key = key,
              !.payload = payload, !.label = label]

\* the failure code returning the other sentinel
FailTail_WrongSentinel(f) ==
    EnterTail([f EXCEPT !.accepted = FALSE], "fail", "total_failures", None, "ERROR")

\* code after the try/except of the medium tier: all methods failed
FailTail(f) ==
    EnterTail([f EXCEPT !.accepted = FALSE], "fail", "total_failures", None,
         "FAILED_ALL_METHODS")

\* the outer handler without its `total_failures += 1`
ErrorTail_Uncounted(f) ==
    [f EXCEPT !.pc = "avg", !.ctx = "err", !.accepted = FALSE,
              !.payload = None, !.label = "ERROR"]

\* no outer handler: the preprocessing error leaves the call
ErrorTail_Unhandled(f) == Propagated(f)

\* the outer `except Exception` handler of imagen_a_url
ErrorTail(f) ==
    EnterTail([f EXCEPT !.accepted = FALSE], "err", "total_failures", None, "ERROR")

\* the cascade with its large tier enabled: medium falls through to large
AfterTier_ThenLarge(f) ==
    IF f.cls \in {"small", "medium"}
    THEN [f EXCEPT !.pc = "get",
                   !.cls = IF f.cls = "small" THEN "medium" ELSE "large",
                   !.reader = 0, !.accepted = FALSE, !.payload = None, !.label = ""]
    ELSE FailTail(f)

\* where control goes when the try block of a learned tier is left without
\* a return: small falls through to the medium tier, medium to the failure
\* code (the large tier is commented out)
AfterTier(f) ==
    IF f.cls = "small"
    THEN [f EXCEPT !.pc = "get", !.cls = "medium", !.reader = 0,
                   !.accepted = FALSE, !.payload = None, !.label = ""]
    ELSE FailTail(f)

\* where control goes when a deterministic block did not return: the next
\* block of the same strategy, the next strategy, then the small tier
NextDeterministic(f) ==
    LET g == [f EXCEPT !.accepted = FALSE, !.payload = None, !.label = ""]
    IN IF f.m < Len(methods) THEN [g EXCEPT !.m = f.m + 1]
       ELSE IF f.i < Len(strategies) THEN [g EXCEPT !.i = f.i + 1, !.m = 1]
       ELSE [g EXCEPT !.pc = "get", !.cls = "small"]

\* the innermost handler that catches an exception raised in context ctx
Caught(f) ==
    CASE f.ctx = "det"  -> NextDeterministic(f)
      [] f.ctx \in {"small", "medium"} -> AfterTier(f)
      [] OTHER -> Propagated(f)

\* where control goes once a getter has produced instance h
AfterGet(f, h) ==
    IF f.op = "decode"
    THEN [f EXCEPT !.pc = "inf", !.i = 1, !.reader = h]
    ELSE Finished([f EXCEPT !.reader = h], None, "")

\* initialize_qreaders with its medium block left out
AfterInitClass_SmallOnly(f) == Finished(f, None, "")

\* initialize_qreaders after the block of one size class: small, then
\* medium (the large block is commented out)
AfterInitClass(f) ==
    IF f.cls = "small"
    THEN [f EXCEPT !.pc = "ini", !.cls = "medium"]
    ELSE Finished(f, None, "")

\* a model that is not used by the request that constructed it: the tier
\* is left as soon as the constructor has returned
Constructed_SkipsTier(f, id) ==
    IF f.op = "init"
    THEN AfterInitClass([f EXCEPT !.built = @ \cup {f.cls}])
    ELSE IF f.op = "get"
    THEN AfterGet([f EXCEPT !.built = @ \cup {f.cls}], id)
    ELSE AfterTier(f)

\* where control goes once the constructor has returned instance id and the
\* global is assigned
Constructed(f, id) ==
    IF f.op = "init"
    THEN AfterInitClass([f EXCEPT !.built = @ \cup {f.cls}])
    ELSE IF f.op = "get"
    THEN AfterGet([f EXCEPT !.built = @ \cup {f.cls}], id)
    ELSE AfterGet(f, id)

\* the getter called outside the try block of its tier: only the outer
\* handler of imagen_a_url catches the constructor's exception
ConstructorRaised_Outer(f) ==
    IF f.op = "decode"
    THEN ErrorTail([f EXCEPT !.ctorFailed = @ \cup {f.cls}])
    ELSE Propagated(f)

\* where control goes when the constructor raises: inside imagen_a_url the
\* getter is called within the try block of its tier; a direct getter call
\* and initialize_qreaders have no handler
ConstructorRaised(f) ==
    IF f.op = "decode"
    THEN AfterTier([f EXCEPT !.ctorFailed = @ \cup {f.cls}])
    ELSE Propagated(f)

\* ---------------------------------------------------------------- actions
\* imagen_a_url is entered; the read half of `total_requests += 1`.  A run
\* starts at most cap calls.
BeginDecodeUpTo(w, cap) ==
    /\ loc[w].pc = "idle"
    /\ started < cap
    /\ loc' = [loc EXCEPT ![w] =
                 [IdleFrame EXCEPT !.pc = "req_store", !.op = "decode",
                                   !.tmp = metrics["total_requests"],
                                   !.ref = "live"]]
    /\ started' = started + 1
    /\ UNCHANGED <<pool, telemetry, completed>>

\* torch.set_grad_enabled(False); torch.set_num_threads(4).  perCall
\* records whether the statements were run by a getter whose handle was
\* already loaded.
Configured(loaded) ==
    [grad |-> FALSE, threads |-> NumThreads, perCall |-> loaded]

\* a decode that loads both models on entry, before its first decoder
BeginDecode_Eager(w) ==
    /\ loc[w].pc = "idle"
    /\ started < MaxCalls
    /\ loc' = [loc EXCEPT ![w] =
                 [IdleFrame EXCEPT !.pc = "req_store", !.op = "decode",
                                   !.tmp = metrics["total_requests"],
                                   !.ref = "live"]]
    /\ started' = started + 1
    /\ torch' = Configured(FALSE)
    /\ handle' = [c \in Classes |->
                    IF c # "large" /\ IsNone(handle[c]) THEN constructions[c] + 1
                    ELSE handle[c]]
    /\ constructions' = [c \in Classes |->
                    IF c # "large" /\ IsNone(handle[c]) THEN constructions[c] + 1
                    ELSE constructions[c]]
    /\ UNCHANGED <<telemetry, completed>>

BeginDecode(w) == BeginDecodeUpTo(w, MaxCalls)

\* the write half of `total_requests += 1`, into the dict that was read
StoreRequests(w) ==
    /\ loc[w].pc = "req_store"
    /\ metrics' = IF loc[w].ref = "live"
                  THEN [metrics EXCEPT !["total_requests"] = Incremented(loc[w].tmp)]
                  ELSE metrics
    /\ loc' = [loc EXCEPT ![w].pc = "pre"]
    /\ UNCHANGED <<pool, avg_latency_ms, latSum, counts>>

\* leer_limpiar_imagen: ValueError (or a cv2 error) when the bytes are no
\* raster, which only the outer handler catches
Preprocess(w, E) ==
    /\ loc[w].pc = "pre"
    /\ \E readable \in E.readable :
         loc' = [loc EXCEPT ![w] =
                   IF readable
                   THEN [@ EXCEPT !.pc = "det", !.i = 1, !.m = 1, !.preOk = TRUE]
                   ELSE ErrorTail(@)]
    /\ UNCHANGED <<pool, telemetry, counts>>

\* one guarded block (CV2, CV2_CURVED or PYZBAR) on one strategy
AttemptDeterministic(w, E) ==
    LET f      == loc[w]
        method == methods[f.m]
        s      == strategies[f.i]
        g      == [f EXCEPT !.trace = Append(f.trace, <<method, s>>)]
    IN /\ f.pc = "det"
       /\ \E o \in E.det[method] :
            loc' = [loc EXCEPT ![w] =
                      IF DetAccepts(method, o)
                      THEN EnterTail([g EXCEPT !.accepted = TRUE], "det",
                                     SuccessKey(method), o.out[1], Label(method, s))
                      ELSE NextDeterministic(
                             IF o.kind = "raise"
                             THEN [g EXCEPT !.raised = @ \cup {"det"}]
                             ELSE g)]
       /\ UNCHANGED <<pool, telemetry, counts>>

\* a getter that runs the torch settings before its None test, on every call
GetReader_ConfiguresPerCall(w) ==
    LET f == loc[w]
    IN /\ f.pc = "get"
       /\ torch' = Configured(~IsNone(handle[f.cls]))
       /\ loc' = [loc EXCEPT ![w] = IF IsNone(handle[f.cls])
                                    THEN [f EXCEPT !.pc = "ctor"]
                                    ELSE AfterGet(f, handle[f.cls])]
       /\ UNCHANGED <<handle, constructions, telemetry, counts>>

\* get_qreader_small / _medium / _large up to the constructor call: the
\* None test, and on None the two torch settings
GetReader(w) ==
    LET f == loc[w]
    IN /\ f.pc = "get"
       /\ IF IsNone(handle[f.cls])
          THEN /\ torch' = Configured(~IsNone(handle[f.cls]))
               /\ loc' = [loc EXCEPT ![w].pc = "ctor"]
          ELSE /\ loc' = [loc EXCEPT ![w] = AfterGet(f, handle[f.cls])]
               /\ UNCHANGED torch
       /\ UNCHANGED <<handle, constructions, telemetry, counts>>

\* a pool that marks the class whose constructor raised as unusable
Construct_RemembersFailure(w, E) ==
    LET f  == loc[w]
        id == constructions[f.cls] + 1
    IN /\ f.pc = "ctor"
       /\ \E ok \in E.ctor :
            IF ok
            THEN /\ handle' = [handle EXCEPT ![f.cls] = id]
                 /\ constructions' = [constructions EXCEPT ![f.cls] = id]
                 /\ loc' = [loc EXCEPT ![w] = Constructed(f, id)]
            ELSE /\ handle' = [handle EXCEPT ![f.cls] = -1]
                 /\ UNCHANGED constructions
                 /\ loc' = [loc EXCEPT ![w] = ConstructorRaised(f)]
       /\ UNCHANGED <<torch, telemetry, counts>>

\* QReader(model_size=..., ...) and the assignment to the module global; a
\* constructor that raises leaves the global as it was
Construct(w, E) ==
    LET f  == loc[w]
        id == constructions[f.cls] + 1
    IN /\ f.pc = "ctor"
       /\ \E ok \in E.ctor :
            IF ok
            THEN /\ handle' = [handle EXCEPT ![f.cls] = id]
                 /\ constructions' = [constructions EXCEPT ![f.cls] = id]
                 /\ loc' = [loc EXCEPT ![w] = Constructed(f, id)]
            ELSE /\ UNCHANGED <<handle, constructions>>
                 /\ loc' = [loc EXCEPT ![w] = ConstructorRaised(f)]
       /\ UNCHANGED <<torch, telemetry, counts>>

\* one detect_and_decode of a learned tier on one strategy; the try block
\* encloses the whole strategy loop of the tier
Infer(w, E) ==
    LET f    == loc[w]
        tier == TierName(f.cls)
        s    == strategies[f.i]
        g    == [f EXCEPT !.trace = Append(f.trace, <<tier, s>>)]
    IN /\ f.pc = "inf"
       /\ \E o \in E.qreader :
            loc' = [loc EXCEPT ![w] =
                      IF QReaderAccepts(o)
                      THEN EnterTail([g EXCEPT !.accepted = TRUE], f.cls,
                                     SuccessKey(tier), o.out[1], Label(tier, s))
                      ELSE IF o.kind = "raise"
                      THEN AfterTier([g EXCEPT !.raised = @ \cup {f.cls}])
                      ELSE IF f.i < Len(strategies)
                      THEN [g EXCEPT !.i = f.i + 1]
                      ELSE AfterTier(g)]
       /\ UNCHANGED <<pool, telemetry, counts>>

\* the read half of `<outcome counter> += 1`
LoadCounter(w) ==
    /\ loc[w].pc = "cnt_load"
    /\ loc' = [loc EXCEPT ![w].pc = "cnt_store",
                          ![w].tmp = metrics[loc[w].key],
                          ![w].ref = "live"]
    /\ UNCHANGED <<pool, telemetry, counts>>

\* the write half of `<outcome counter> += 1`, into the dict that was read
StoreCounter(w) ==
    LET f == loc[w]
    IN /\ f.pc = "cnt_store"
       /\ metrics' = IF f.ref = "live"
                     THEN [metrics EXCEPT ![f.key] = Incremented(f.tmp)]
                     ELSE metrics
       /\ loc' = [loc EXCEPT ![w].pc = "avg",
                             ![w].bumped = Append(f.bumped, f.key)]
       /\ UNCHANGED <<pool, avg_latency_ms, latSum, counts>>

\* latency = ...; the avg_latency_ms update; return.  The division raises
\* ZeroDivisionError when total_requests is 0, and the handler that
\* encloses the statement catches it.
UpdateAverage(w) ==
    LET f     == loc[w]
        total == metrics["total_requests"]
        h     == Caught(f)
    IN /\ f.pc = "avg"
       /\ \E latency \in Latencies :
            IF total = 0
            THEN /\ loc' = [loc EXCEPT ![w] = h]
                 /\ completed' = IF h.pc = "done" THEN completed + 1 ELSE completed
                 /\ UNCHANGED <<avg_latency_ms, latSum>>
            ELSE /\ avg_latency_ms' = NewAverage(avg_latency_ms, total, latency)
                 /\ latSum' = latSum + latency
                 /\ loc' = [loc EXCEPT ![w] = Finished(f, f.payload, f.label)]
                 /\ completed' = completed + 1
       /\ UNCHANGED <<pool, metrics, started>>

\* a direct call of get_qreader_small / _medium / _large
BeginGet(w) ==
    /\ loc[w].pc = "idle"
    /\ \E c \in Classes :
         loc' = [loc EXCEPT ![w] =
                   [IdleFrame EXCEPT !.pc = "get", !.op = "get", !.cls = c]]
    /\ UNCHANGED <<pool, telemetry, counts>>

\* initialize_qreaders is entered: the torch settings come first,
\* whatever is loaded
BeginInit(w) ==
    /\ loc[w].pc = "idle"
    /\ torch' = Configured(FALSE)
    /\ loc' = [loc EXCEPT ![w] =
                 [IdleFrame EXCEPT !.pc = "ini", !.op = "init", !.cls = "small"]]
    /\ UNCHANGED <<handle, constructions, telemetry, counts>>

\* `if _qreader_<class> is None:` of initialize_qreaders
InitCheck(w) ==
    LET f == loc[w]
    IN /\ f.pc = "ini"
       /\ loc' = [loc EXCEPT ![w] =
                    IF IsNone(handle[f.cls])
                    THEN [f EXCEPT !.pc = "ctor"]
                    ELSE AfterInitClass(f)]
       /\ UNCHANGED <<pool, telemetry, counts>>

\* the caller has taken the result; the frame is gone
Return(w) ==
    /\ loc[w].pc = "done"
    /\ loc' = [loc EXCEPT ![w] = IdleFrame]
    /\ UNCHANGED <<pool, telemetry, counts>>

\* get_detection_metrics: the dict itself while total_requests is 0, else
\* a copy extended with the success rate (the per-method percentages are
\* computed the same way and left out)
get_detection_metrics ==
    LET total == metrics["total_requests"]
        total_success == SumOver(metrics, SuccessKeys)
    IN IF total = 0
       THEN [counters |-> metrics, avg_latency_ms |-> avg_latency_ms,
             extended |-> FALSE, success_rate_pct |-> <<0, 1>>]
       ELSE [counters |-> metrics, avg_latency_ms |-> avg_latency_ms,
             extended |-> TRUE,
             success_rate_pct |-> Norm(total_success * 100, total)]

\* a reset whose dict literal has no 'avg_latency_ms' entry of 0: the old
\* average is carried over
reset_KeepsAverage ==
    /\ metrics' = ZeroMetrics
    /\ loc' = [w \in Workers |->
                 IF loc[w].pc \in {"req_store", "cnt_store"}
                 THEN [loc[w] EXCEPT !.ref = "orphan"]
                 ELSE loc[w]]
    /\ completed' = 0
    /\ latSum' = 0
    /\ UNCHANGED <<pool, started, avg_latency_ms>>

\* reset_detection_metrics: the global is rebound to a fresh dict, so a
\* `+= 1` that has read the old dict stores into the old dict
reset_detection_metrics ==
    /\ metrics' = ZeroMetrics
    /\ avg_latency_ms' = <<0, 1>>
    /\ loc' = [w \in Workers |->
                 IF loc[w].pc \in {"req_store", "cnt_store"}
                 THEN [loc[w] EXCEPT !.ref = "orphan"]
                 ELSE loc[w]]
    /\ completed' = 0
    /\ latSum' = 0
    /\ UNCHANGED <<pool, started>>

Step(w, E) ==
  /\ UNCHANGED <<image, hybrid>>
  /\
    \/ BeginDecode(w)
    \/ StoreRequests(w)
    \/ Preprocess(w, E)
    \/ AttemptDeterministic(w, E)
    \/ GetReader(w)
    \/ Construct(w, E)
    \/ Infer(w, E)
    \/ LoadCounter(w)
    \/ StoreCounter(w)
    \/ UpdateAverage(w)
    \/ BeginGet(w)
    \/ BeginInit(w)
    \/ InitCheck(w)
    \/ Return(w)

\* no other call frame exists: calls do not overlap.  Idle frames are
\* interchangeable, so the first of them carries the call.
Alone(w) == \A v \in Workers \ {w} : loc[v].pc = "idle" /\ w < v

\* one call at a time
Next ==
    \/ \E w \in Workers : Alone(w) /\ Step(w, AnyInput)
    \/ AllIdle /\ reset_detection_metrics /\ UNCHANGED <<image, hybrid>>

Spec == Init /\ [][Next]_vars

\* the default use of the module: initialize_qreaders at startup and
\* imagen_a_url per request, one at a time; no caller of the getters other
\* than imagen_a_url
NextDefault ==
    \/ \E w \in Workers : Alone(w) /\ Step(w, AnyInput) /\ loc'[w].op # "get"
    \/ AllIdle /\ reset_detection_metrics /\ UNCHANGED <<image, hybrid>>

SpecDefault == Init /\ [][NextDefault]_vars

\* A frame at one of these steps touches nothing shared: the step commutes
\* with every step of the other threads, so the interleavings that run it
\* first stand for all the others.
Local(w) == loc[w].pc \in {"pre", "det", "done"}

MayRun(w) == \A v \in Workers : Local(v) => w <= v

\* threads that interleave at every access to the shared state, serving
\* requests of the class HardInput; the metrics are reset between calls
NextConc ==
    \/ \E w \in Workers : MayRun(w) /\ Step(w, HardInput)
    \/ AllIdle /\ reset_detection_metrics /\ UNCHANGED <<image, hybrid>>

SpecConc == Init /\ [][NextConc]_vars

\* bytes that are no raster: the call goes from preprocessing straight to
\* the outer handler
UnreadableInput == [AnyInput EXCEPT !.readable = {FALSE}]

\* threads that interleave at every access to the shared state, serving
\* requests of the class UnreadableInput, with no reset
StepRace(w) ==
  /\ UNCHANGED <<image, hybrid>>
  /\
    \/ BeginDecodeUpTo(w, MaxRaceCalls)
    \/ StoreRequests(w)
    \/ Preprocess(w, UnreadableInput)
    \/ LoadCounter(w)
    \/ StoreCounter(w)
    \/ UpdateAverage(w)
    \/ Return(w)

NextRace == \E w \in Workers : MayRun(w) /\ StepRace(w)

SpecRace == Init /\ [][NextRace]_vars

\* ------------------------------------------------------- cancellation
\* The client of a request goes away while its imagen_a_url call runs.  The
\* call takes only image_data and tests no signal, so nothing of the call
\* changes; the frame notes how many pairings had been attempted by then.
Cancel(w) ==
    /\ loc[w].op = "decode"
    /\ InFlight(w)
    /\ loc[w].cancelledAt = -1
    /\ loc' = [loc EXCEPT ![w].cancelledAt = Len(loc[w].trace)]
    /\ UNCHANGED <<pool, telemetry, counts, image, hybrid>>

\* one call at a time, cancelled at any moment
NextCancel ==
    \/ \E w \in Workers : Alone(w) /\ Step(w, AnyInput)
    \/ \E w \in Workers : Alone(w) /\ Cancel(w)
    \/ AllIdle /\ reset_detection_metrics /\ UNCHANGED <<image, hybrid>>

SpecCancel == Init /\ [][NextCancel]_vars

\* ------------------------------------------------ the same bytes, twice
\* What a decoder makes of one image: nothing, the payload, or an exception.
\* Each decoder is a function of the image (the same on every strategy).
Kinds == {"miss", "hit", "raise"}

Images ==
    [readable : {TRUE},
     det      : [{"CV2", "CV2_CURVED", "PYZBAR"} -> Kinds],
     qreader  : [{"small", "medium"} -> Kinds]]
      \cup {[readable |-> FALSE,
              det      |-> [method \in {"CV2", "CV2_CURVED", "PYZBAR"} |-> "miss"],
              qreader  |-> [c \in {"small", "medium"} |-> "miss"]]}

\* the return value of a deterministic block's library call
DetOutcome(method, kind) ==
    CASE kind = "raise" -> [kind |-> "raise", out |-> <<>>]
      [] kind = "hit"   -> [kind |-> "value", out |-> <<"u1">>]
      [] kind = "miss"  -> [kind |-> "value",
                            out |-> IF method = "PYZBAR" THEN <<>> ELSE <<"">>]

\* the return value of detect_and_decode
QReaderOutcome(kind) ==
    CASE kind = "raise" -> [kind |-> "raise", out |-> <<>>]
      [] kind = "hit"   -> [kind |-> "value", out |-> <<"u1">>]
      [] kind = "miss"  -> [kind |-> "value", out |-> <<>>]

\* what the libraries give the call in frame w when its bytes are `image`;
\* whether a constructor succeeds is not a matter of the bytes
ImageInput(w) ==
    [readable |-> {image.readable},
     det      |-> [method \in {"CV2", "CV2_CURVED", "PYZBAR"} |->
                     {DetOutcome(method, image.det[method])}],
     qreader  |-> IF loc[w].cls \in {"small", "medium"}
                  THEN {QReaderOutcome(image.qreader[loc[w].cls])}
                  ELSE {},
     ctor     |-> BOOLEAN]

\* one call at a time: the frames are used in turn, and the frame of a
\* call that has ended is kept
Turn(w) ==
    /\ loc[w].pc # "done"
    /\ \A v \in Workers \ {w} :
         IF v < w THEN loc[v].pc = "done" ELSE loc[v].pc = "idle"

\* imagen_a_url calls one after the other, every one on the same bytes,
\* with resets of the metrics in between
NextTwice ==
    \/ \E w \in Workers : Turn(w) /\ Step(w, ImageInput(w)) /\ loc'[w].op = "decode"
    \/ (\A w \in Workers : ~InFlight(w)) /\ reset_detection_metrics
                                          /\ UNCHANGED <<image, hybrid>>

InitTwice == Start /\ image \in Images

SpecTwice == InitTwice /\ [][NextTwice]_vars

\* ------------------------------------------------- startup, then requests
\* startup_event calls initialize_qreaders() inside try/except, so the
\* service comes up whether or not it raised; then the calls of the
\* requests follow one after the other.  The frame of a call that has ended
\* is kept.
NextRetry ==
    \E w \in Workers :
      /\ Turn(w)
      /\ Step(w, AnyInput)
      /\ loc'[w].op = IF w = 1 THEN "init" ELSE loc'[w].op

SpecRetry == Init /\ [][NextRetry]_vars

\* ------------------------------------------- a reset during a request
\* POST /qr-metrics/reset is served while a decode request is in progress:
\* reset_detection_metrics() runs between any two steps of imagen_a_url
NextReset ==
    \/ \E w \in Workers : Alone(w) /\ Step(w, AnyInput) /\ loc'[w].op = "decode"
    \/ reset_detection_metrics /\ UNCHANGED <<image, hybrid>>

SpecReset == Init /\ [][NextReset]_vars

\* ------------------------------------------------- hybrid service actions
\* a start-up that loads the medium model as well
main_PreloadsBoth ==
    /\ hybrid.phase = "boot"
    /\ \E ok \in BOOLEAN :
         LET g == get_small_reader(hybrid, ok)
             m == get_medium_reader(g.h, TRUE)
         IN hybrid' = IF g.raised THEN [g.h EXCEPT !.phase = "down"]
                      ELSE [m.h EXCEPT !.phase = "serving"]
    /\ UNCHANGED <<detector, image>>

\* `if __name__ == '__main__':` pre-loads the small model and then serves;
\* a constructor that raises ends the process
main ==
    /\ hybrid.phase = "boot"
    /\ \E ok \in BOOLEAN :
         LET g == get_small_reader(hybrid, ok)
         IN hybrid' = [g.h EXCEPT !.phase = IF g.raised THEN "down" ELSE "serving"]
    /\ UNCHANGED <<detector, image>>

\* QRHybridHandler.do_POST, from its first statement to its last
do_POST ==
    /\ hybrid.phase = "serving"
    /\ hybrid.posts < MaxPosts
    /\ UNCHANGED <<detector, image>>
    /\ LET h0 == [hybrid EXCEPT !.posts = @ + 1, !.last = NoResponse]
           h1 == Add([h0 EXCEPT !.detects = @ + 1], "total_requests", 1)
       IN \E path_ok \in BOOLEAN, write_ok \in BOOLEAN :
            IF ~path_ok
            THEN \* self.path != '/detect': send_error(404)
                 hybrid' = Answered(h0, 404, FALSE, None, 0, "", FALSE)
            ELSE \E length_ok \in BOOLEAN :
            IF ~length_ok
            THEN \* int(self.headers['Content-Length']) raises outside the
                 \* try: no response is sent
                 hybrid' = h1
            ELSE \E readable \in BOOLEAN :
            IF ~readable
            THEN \* preprocess_image raises
                 hybrid' = Failed500(h1)
            ELSE \E okS \in BOOLEAN :
            LET gs == get_small_reader(h1, okS)
            IN IF gs.raised
            THEN hybrid' = Failed500(gs.h)
            ELSE \E oS \in HybridOutcomes, latS \in Latencies :
            LET h2 == Invoked(gs.h, "small")
                rS == detect_with_confidence(oS, latS, "small")
                h3 == [Add(h2, "small_time_ms", latS) EXCEPT !.last.small_result = rS]
            IN IF oS.kind = "raise"
            THEN hybrid' = Failed500(h2)
            ELSE IF SmallAccepts(rS)
            THEN hybrid' = Written(Answered(Count(h3, "small_success"), 200, TRUE,
                                            rS.data, rS.confidence, "small", FALSE),
                                   write_ok)
            ELSE \E okM \in BOOLEAN :
            LET gm == get_medium_reader([h3 EXCEPT !.last.escalated = TRUE], okM)
            IN IF gm.raised
            THEN hybrid' = Failed500(gm.h)
            ELSE \E oM \in HybridOutcomes, latM \in Latencies :
                   hybrid' = MediumLevel(gm.h, oM, latM, write_ok)

NextHybrid == main \/ do_POST

SpecHybrid == Init /\ [][NextHybrid]_vars

\* ----------------------------------------------------------------- claims
Decoding(w) == loc[w].op = "decode"
Ended(w)    == loc[w].pc = "done" /\ Decoding(w)
Quiet       == \A w \in Workers : ~InFlight(w)

\* calls that have stored their total_requests increment and not ended
Counted == {w \in Workers : Decoding(w) /\ loc[w].pc \notin {"idle", "req_store", "done"}}

\* calls that have stored their outcome counter and not ended
Scored == {w \in Workers : Decoding(w) /\ loc[w].pc = "avg"}

OutcomeSum == SumOver(metrics, OutcomeKeys)

\* C1: with calls that do not overlap, total_requests and the sum of the
\* seven outcome counters both equal the number of calls ended since the
\* last reset (plus the call in progress once it has stored its increment),
\* whatever the outcomes and however many attempts each call made; a call
\* that has ended has incremented exactly one outcome counter, once.
C1_MetricsCountCalls ==
    /\ metrics["total_requests"] = completed + Cardinality(Counted)
    /\ OutcomeSum = completed + Cardinality(Scored)
    /\ \A w \in Workers :
         Ended(w) => /\ Len(loc[w].bumped) = 1
                     /\ loc[w].bumped[1] \in OutcomeKeys

\* two calls have ended since the reset, one after a full cascade of 15
\* attempts that failed, the other accepted by the medium tier
C1_Witness ==
    /\ completed = 2
    /\ metrics["total_requests"] = 2
    /\ metrics["total_failures"] = 1
    /\ metrics["qreader_medium_success"] = 1
    /\ \E w \in Workers : Ended(w) /\ Len(loc[w].trace) = 15

\* C2: however the threads interleave, at most one instance is constructed
\* per size class and every frame that holds a reader of a class holds the
\* instance the global holds.
C2_SingleConstruction ==
    /\ \A c \in Classes : constructions[c] <= 1
    /\ \A w \in Workers : loc[w].reader # 0 => loc[w].reader = handle[loc[w].cls]

\* C3: with calls that do not overlap, a size class is constructed at most
\* once, the global then holds that instance for good, and every getter
\* call returns it.
C3_HandleIsStable ==
    /\ \A c \in Classes :
         /\ constructions[c] <= 1
         /\ handle[c] \in {0, 1}
         /\ constructions[c] = 1 => handle[c] = 1
    /\ \A w \in Workers : loc[w].reader # 0 =>
         /\ loc[w].reader = 1
         /\ handle[loc[w].cls] = 1

\* initialize_qreaders has run to its end with both classes already loaded
\* and has constructed nothing
C3_Witness ==
    \E w \in Workers :
      /\ loc[w].pc = "done"
      /\ loc[w].op = "init"
      /\ loc[w].built = {}
      /\ ~loc[w].exc
      /\ handle["small"] = 1
      /\ handle["medium"] = 1

\* the cascade priority order the claims state
CascadeOrder ==
    << <<"CV2", "equalized">>, <<"CV2_CURVED", "equalized">>, <<"PYZBAR", "equalized">>,
       <<"CV2", "raw">>,       <<"CV2_CURVED", "raw">>,       <<"PYZBAR", "raw">>,
       <<"CV2", "binary">>,    <<"CV2_CURVED", "binary">>,    <<"PYZBAR", "binary">>,
       <<"QREADER_S", "equalized">>, <<"QREADER_S", "raw">>, <<"QREADER_S", "binary">>,
       <<"QREADER_M", "equalized">>, <<"QREADER_M", "raw">>, <<"QREADER_M", "binary">> >>

NumDeterministic == Len(methods) * Len(strategies)

Position(e)  == CHOOSE k \in 1..Len(CascadeOrder) : CascadeOrder[k] = e
Attempted(t) == {t[k] : k \in 1..Len(t)}
IsPrefix(t)  == Len(t) <= Len(CascadeOrder) /\ t = SubSeq(CascadeOrder, 1, Len(t))
Learned(e)   == e[1] \in {"QREADER_S", "QREADER_M", "QREADER_L"}
Sentinels    == {"ERROR", "FAILED_ALL_METHODS"}
Last(t)      == t[Len(t)]

\* no exception has cut a learned tier short in this call
Undisturbed(f) == f.raised \cap {"small", "medium"} = {} /\ f.ctorFailed = {}

C5_FirstNonEmptyAccepted ==
    \A w \in Workers :
      LET f == loc[w]
      IN (Ended(w) /\ ~f.exc /\ f.label \notin Sentinels) =>
           /\ f.accepted
           /\ f.trace # <<>>
           /\ f.payload \notin {"", None}
           /\ f.label = Label(Last(f.trace)[1], Last(f.trace)[2])
           /\ Len(f.trace) = 1 => f.label = "CV2_EQUALIZED"

\* C6: a call whose bytes are no raster attempts no decoder, and ends by
\* returning (None, "ERROR"), never by an exception.
C6_UnreadableIsError ==
    \A w \in Workers :
      LET f == loc[w]
      IN (Decoding(w) /\ f.pc \notin {"idle", "req_store", "pre"} /\ ~f.preOk) =>
           /\ f.trace = <<>>
           /\ f.ctx = "err"
           /\ f.pc = "done" =>
                /\ ~f.exc
                /\ f.payload = None
                /\ f.label = "ERROR"

\* a call on unreadable bytes has returned
C6_Witness ==
    \E w \in Workers : Ended(w) /\ ~loc[w].preOk /\ loc[w].label = "ERROR"

\* C7: a call in which some attempt raised does not return "ERROR" for it,
\* and (no constructor having failed) has attempted every pairing of the
\* cascade order up to the one it accepted, or all fifteen.
C7_ExceptionIsNonMatch ==
    \A w \in Workers :
      LET f == loc[w]
      IN (Ended(w) /\ f.raised # {} /\ f.ctorFailed = {}) =>
           /\ ~f.exc
           /\ f.label # "ERROR"
           /\ IsPrefix(f.trace)
           /\ ~f.accepted => f.trace = CascadeOrder

\* C8: a call in which a constructor raised still ends by returning: the
\* payload and label of the pairing it accepted, or (None,
\* "FAILED_ALL_METHODS"), never "ERROR"; after a failed construction of
\* the small model the medium tier is still tried; and whatever the pool
\* holds, a call accepted by a deterministic decoder returns that
\* decoder's label without a constructor having run.
C8_ConstructionFailureTolerated ==
    \A w \in Workers :
      LET f == loc[w]
      IN /\ (Ended(w) /\ f.ctorFailed # {}) =>
              /\ ~f.exc
              /\ f.label # "ERROR"
              /\ f.accepted => /\ f.label = Label(Last(f.trace)[1], Last(f.trace)[2])
                               /\ f.payload \in Payloads
              /\ ~f.accepted => f.label = "FAILED_ALL_METHODS" /\ f.payload = None
              /\ "small" \in f.ctorFailed =>
                   \/ "medium" \in f.ctorFailed
                   \/ \E k \in 1..Len(f.trace) : f.trace[k][1] = "QREADER_M"
         /\ (Ended(w) /\ f.accepted /\ ~Learned(Last(f.trace))) =>
              /\ ~f.exc
              /\ f.ctorFailed = {}
              /\ f.label = Label(Last(f.trace)[1], Last(f.trace)[2])

\* the small constructor raised, the medium tier ran on all three
\* strategies and the call returned FAILED_ALL_METHODS
C8_Witness ==
    \E w \in Workers :
      /\ Ended(w)
      /\ loc[w].ctorFailed = {"small"}
      /\ loc[w].label = "FAILED_ALL_METHODS"
      /\ <<"QREADER_M", "binary">> \in Attempted(loc[w].trace)

\* the cascade of frame f has run to its end: all nine deterministic
\* pairings, and each learned tier until its last strategy or until an
\* exception left the tier
Exhausted(f) ==
    /\ Len(f.trace) >= NumDeterministic
    /\ SubSeq(f.trace, 1, NumDeterministic) = SubSeq(CascadeOrder, 1, NumDeterministic)
    /\ \A c \in {"small", "medium"} :
         \/ c \in f.ctorFailed
         \/ c \in f.raised
         \/ \A k \in 1..Len(strategies) :
              <<TierName(c), strategies[k]>> \in Attempted(f.trace)

C10_NoLostUpdate ==
    Quiet =>
      /\ metrics["total_requests"] = completed
      /\ OutcomeSum = completed
      /\ avg_latency_ms[1] * completed = latSum * avg_latency_ms[2]

\* C11: with calls that do not overlap, avg_latency_ms times the number of
\* calls ended since the last reset is the sum of their latencies at every
\* moment, and between calls that number is total_requests: the average is
\* the arithmetic mean of the latencies recorded.
C11_AverageIsMean ==
    /\ avg_latency_ms[2] > 0
    /\ avg_latency_ms[1] * completed = latSum * avg_latency_ms[2]
    /\ Quiet => avg_latency_ms[1] * metrics["total_requests"] = latSum * avg_latency_ms[2]

\* two calls with different latencies have ended: the mean is 3/2
C11_Witness ==
    /\ Quiet
    /\ metrics["total_requests"] = 2
    /\ latSum = 3
    /\ avg_latency_ms = <<3, 2>>

\* every counter and the average of a snapshot are 0
AllZero(snapshot) ==
    /\ \A k \in CounterKeys : snapshot.counters[k] = 0
    /\ snapshot.avg_latency_ms[1] = 0

\* C12: whatever calls came before, right after reset_detection_metrics()
\* a get_detection_metrics() returns total_requests, the six success
\* counters, total_failures and avg_latency_ms all 0.
C12_ResetThenSnapshotIsZero ==
    [][reset_detection_metrics => AllZero(get_detection_metrics')]_vars

\* the metrics have been reset after two calls ended, and nothing was
\* counted since
C12_Witness ==
    /\ AllIdle
    /\ started = 2
    /\ completed = 0
    /\ AllZero(get_detection_metrics)
    /\ ~get_detection_metrics.extended

\* C13: no step other than a reset lowers a counter of the metrics.
C13_CountersNeverDecrease ==
    [][reset_detection_metrics \/ \A k \in CounterKeys : metrics'[k] >= metrics[k]]_vars

\* the record of the last POST /detect request
Last_ == hybrid.last
SmallAttempted == Last_.small_result.model = "small"

\* C14: a request in which the small decoder's attempt had a confidence
\* below the threshold is not answered with model_used = 'small' and does
\* not count a small_success, payload or not; the handler goes on to the
\* medium tier in the same request: get_medium_reader() is called and,
\* unless the call or a later one raises, the medium decoder is run.
C14_LowConfidenceEscalates ==
    (SmallAttempted /\ Last_.small_result.confidence < Threshold) =>
       /\ Last_.model_used # "small"
       /\ "small_success" \notin Last_.counted
       /\ hybrid.metrics["small_success"] <= hybrid.posts - 1
       /\ Last_.escalated
       /\ "medium" \in Last_.invoked \/ Last_.status = 500

\* the small decoder extracted a payload with confidence 0.50 and the
\* request was answered by the medium decoder
C14_Witness ==
    /\ SmallAttempted
    /\ Last_.small_result.success
    /\ Last_.small_result.data = "u1"
    /\ Last_.small_result.confidence = 50
    /\ Last_.model_used = "medium"
    /\ Last_.fallback_used
    /\ "medium" \in Last_.invoked

\* C15: the small decoder's successful attempt is accepted exactly when
\* its confidence is at least the threshold (at exactly 0.65 the request
\* is answered by the small tier without escalating); the medium decoder's
\* attempt is accepted only when it succeeded.
C15_AcceptedAtThreshold ==
    /\ SmallAttempted =>
         /\ Last_.model_used = "small" <=>
              (Last_.small_result.success /\ Last_.small_result.confidence >= Threshold)
         /\ (Last_.small_result.success /\ Last_.small_result.confidence >= Threshold)
              => ~Last_.escalated
    /\ Last_.model_used = "medium" => Last_.medium_result.success

\* C16: whatever initialize_qreaders and imagen_a_url calls were made, the
\* large handle is unconstructed, qreader_large_success is 0, no call is
\* in the large tier or has attempted the large decoder, and no label
\* names it.
C16_LargeNeverUsed ==
    /\ handle["large"] = 0
    /\ constructions["large"] = 0
    /\ metrics["qreader_large_success"] = 0
    /\ \A w \in Workers :
         /\ loc[w].cls # "large"
         /\ \A k \in 1..Len(loc[w].trace) : loc[w].trace[k][1] # "QREADER_L"
         /\ \A k \in 1..Len(strategies) : loc[w].label # Label("QREADER_L", strategies[k])

\* a call has gone through both learned tiers, on loaded models, and
\* returned FAILED_ALL_METHODS
C16_Witness ==
    /\ handle["small"] = 1
    /\ handle["medium"] = 1
    /\ \E w \in Workers :
         /\ Ended(w)
         /\ loc[w].label = "FAILED_ALL_METHODS"
         /\ Len(loc[w].trace) = Len(CascadeOrder)

\* every (decoder, variant) pairing a label can name
Pairings ==
    {<<d, strategies[k]>> : d \in {"CV2", "CV2_CURVED", "PYZBAR", "QREADER_S",
                                   "QREADER_M", "QREADER_L"},
                            k \in 1..Len(strategies)}

\* C17: a call returns a non-empty string exactly when its label is neither
\* "ERROR" nor "FAILED_ALL_METHODS"; a label that is not a sentinel is the
\* label of the pairing attempted last, the one that produced the payload;
\* and no two pairings have the same label.
C17_LabelIdentifiesPayload ==
    /\ \A w \in Workers :
         LET f == loc[w]
         IN (Ended(w) /\ ~f.exc) =>
              /\ f.payload \notin {"", None} <=> f.label \notin Sentinels
              /\ f.label \notin Sentinels =>
                   /\ f.trace # <<>>
                   /\ f.label = Label(Last(f.trace)[1], Last(f.trace)[2])
    /\ \A p, q \in Pairings : Label(p[1], p[2]) = Label(q[1], q[2]) => p = q

C19_CancelStopsCascade ==
    \A w \in Workers :
      loc[w].cancelledAt >= 0 => Len(loc[w].trace) <= loc[w].cancelledAt + 1

\* both configured models are loaded
WarmedUp == handle["small"] # 0 /\ handle["medium"] # 0

\* C20: when initialize_qreaders returns normally the small and the medium
\* handle are constructed; from then on they stay constructed, and no
\* imagen_a_url call is at a constructor, whichever tier it reaches.
C20_WarmUpLoadsAll ==
    [][/\ \A w \in Workers :
            (loc'[w].op = "init" /\ loc'[w].pc = "done" /\ ~loc'[w].exc) => WarmedUp'
       /\ WarmedUp =>
            /\ WarmedUp'
            /\ \A w \in Workers : Decoding(w)' =>
                 /\ loc'[w].pc # "ctor"
                 /\ loc'[w].ctorFailed = {}
                 /\ constructions' = constructions]_vars

\* the first imagen_a_url call of the process has come to its first
\* getter call and finds both models loaded: initialize_qreaders, the only
\* other operation of these runs, constructed them
C20_Witness ==
    /\ WarmedUp
    /\ started = 1
    /\ constructions["small"] = 1
    /\ constructions["medium"] = 1
    /\ \E w \in Workers :
         /\ Decoding(w)
         /\ loc[w].pc = "get"
         /\ loc[w].cls = "small"
         /\ Len(loc[w].trace) = NumDeterministic

\* C21: whenever a learned decoder is at an inference, and whenever a handle
\* is loaded, gradients are disabled and the thread budget is set; and the
\* torch settings were never run by a getter call that found its handle
\* loaded (they run in initialize_qreaders and in a getter on None only).
C21_ConfiguredBeforeInference ==
    /\ \A w \in Workers :
         loc[w].pc = "inf" => ~torch.grad /\ torch.threads = NumThreads
    /\ \A c \in Classes :
         ~IsNone(handle[c]) => ~torch.grad /\ torch.threads = NumThreads
    /\ ~torch.perCall

\* a second decode at a small inference on the handle the first decode
\* constructed and was accepted on
C21_Witness ==
    \E w \in Workers :
      /\ Decoding(w) /\ loc[w].pc = "inf" /\ loc[w].cls = "small"
      /\ started = 2 /\ metrics["qreader_small_success"] = 1
      /\ constructions["small"] = 1 /\ loc[w].reader = handle["small"]

\* C22: in the hybrid service every inference on the small handle runs under
\* a thread count of 4 and every inference on the medium handle under 6,
\* also once the medium model has been loaded.
C22_ThreadBudgetPerClass ==
    /\ "small" \in Last_.invoked => Last_.threads_at["small"] = NumThreads
    /\ "medium" \in Last_.invoked => Last_.threads_at["medium"] = MediumThreads

\* the call is at reader.detect_and_decode(...) of a learned tier
Inferring(w) == Decoding(w) /\ loc[w].pc = "inf"

\* C23: access to a constructed model handle is serialized: no two
\* concurrent requests are inside detect_and_decode on the same handle at
\* the same time.
C23_InferenceSerialized ==
    \A v, w \in Workers :
      (v # w /\ Inferring(v) /\ Inferring(w)) =>
         ~(loc[v].cls = loc[w].cls /\ loc[v].reader = loc[w].reader)

\* the labels of one learned tier
TierLabels(tier) == {Label(tier, strategies[k]) : k \in 1..Len(strategies)}

\* C24: a decode constructs a handle only on first use of its tier.  No
\* step of a decode that is still among the deterministic decoders changes
\* the model pool, and no step of a decode at the small tier changes the
\* medium handle; so a decode accepted by a deterministic decoder leaves the
\* pool as it found it, and a decode accepted by the small decoder has
\* neither constructed nor invoked the medium model and returns a
\* QREADER_S_* label.
C24_LazyConstruction ==
    [][\A w \in Workers :
         (Decoding(w)' /\ loc'[w] # loc[w]) =>
            /\ loc'[w].cls = "" => pool' = pool
            /\ loc'[w].cls = "small" =>
                 /\ handle'["medium"] = handle["medium"]
                 /\ constructions'["medium"] = constructions["medium"]
            /\ (Ended(w)' /\ loc'[w].accepted /\ loc'[w].cls = "" ) =>
                 \A e \in Attempted(loc'[w].trace) : ~Learned(e)
            /\ (Ended(w)' /\ loc'[w].accepted /\ loc'[w].cls = "small") =>
                 /\ loc'[w].label \in TierLabels("QREADER_S")
                 /\ loc'[w].label \notin TierLabels("QREADER_M")
                 /\ \A e \in Attempted(loc'[w].trace) : e[1] # "QREADER_M"]_vars

\* the first decode of a cold process was accepted by the small decoder: the
\* small model is loaded and the medium one is not
C24_Witness ==
    \E w \in Workers :
      /\ Ended(w) /\ loc[w].accepted /\ loc[w].cls = "small"
      /\ loc[w].label \in TierLabels("QREADER_S")
      /\ started = 1 /\ constructions["small"] = 1
      /\ IsNone(handle["medium"]) /\ constructions["medium"] = 0

\* C25: a failed construction is not remembered.  The step in which a
\* constructor raises leaves every handle and every construction count as it
\* was, and the call it belongs to goes on or ends (startup ends with the
\* handles it has constructed kept); every later use that finds the handle
\* unset goes to the constructor again; and each class has at most one
\* instance, the loaded handle once a construction has succeeded.
C25_FailureNotRemembered ==
    [][\A w \in Workers :
         LET f == loc[w]
             g == loc'[w]
         IN /\ (f.pc = "ctor" /\ g # f /\ IsNone(handle'[f.cls])) =>
                 /\ handle' = handle /\ constructions' = constructions
                 /\ g.pc # "ctor"
                 /\ f.op \in {"init", "get"} => g.pc = "done" /\ g.exc
            /\ (f.pc \in {"get", "ini"} /\ g # f /\ IsNone(handle[f.cls])) =>
                 g.pc = "ctor" /\ g.cls = f.cls
            /\ \A c \in Classes :
                 /\ constructions'[c] <= 1
                 /\ IsNone(handle'[c]) <=> constructions'[c] = 0]_vars

\* startup raised while constructing the medium model and kept the small
\* one; a later get_qreader_medium() constructed the medium model
C25_Witness ==
    /\ loc[1].op = "init" /\ loc[1].pc = "done" /\ loc[1].exc
    /\ loc[1].cls = "medium" /\ loc[1].built = {"small"}
    /\ loc[2].op = "get" /\ loc[2].pc = "done" /\ loc[2].cls = "medium"
    /\ loc[2].built = {"medium"} /\ ~loc[2].exc
    /\ handle["small"] = 1 /\ handle["medium"] = 1
    /\ constructions["medium"] = 1

\* C26: in the hybrid service the small model is loaded before the first
\* request is served; the medium model is constructed only by a /detect
\* request whose small attempt was made and not accepted; and while every
\* /detect request so far was accepted by the small model, the medium model
\* has not been constructed.
C26_MediumOnlyOnEscalation ==
    [][/\ hybrid'.phase = "serving" =>
            hybrid'.qr_reader_small # 0 /\ hybrid'.constructed["small"] = 1
       /\ hybrid'.posts > 0 => hybrid.qr_reader_small # 0
       /\ hybrid'.constructed["medium"] # hybrid.constructed["medium"] =>
            /\ hybrid'.last.escalated
            /\ hybrid'.last.small_result.model = "small"
            /\ ~SmallAccepts(hybrid'.last.small_result)
       /\ hybrid'.constructed["medium"] > 0 =>
            hybrid'.metrics["small_success"] < hybrid'.detects
       /\ hybrid'.metrics["small_success"] = hybrid'.detects =>
            hybrid'.qr_reader_medium = 0 /\ hybrid'.constructed["medium"] = 0]_vars

\* the first request was not accepted by the small model and loaded the
\* medium one
C26_Witness ==
    /\ hybrid.detects = 1 /\ Last_.escalated
    /\ ~SmallAccepts(Last_.small_result)
    /\ hybrid.qr_reader_medium # 0 /\ hybrid.constructed["medium"] = 1
    /\ hybrid.constructed["small"] = 1

\* C27 (first part): a reset during a decode does not make it raise
C27_NoRaise == \A w \in Workers : Decoding(w) => ~loc[w].exc

\* C27 (second part): once a decode has counted an accepted attempt it only
\* records the latency and returns
C27_NoContinuedCascade ==
    \A w \in Workers :
      (Decoding(w) /\ loc[w].bumped # <<>>) => loc[w].pc \in {"avg", "done"}

\* C27 (third part): a decode increments at most one outcome counter
C27_OneOutcome == \A w \in Workers : Decoding(w) => Len(loc[w].bumped) <= 1

\* C27: with reset_detection_metrics() running at any point of a decode in
\* progress, the decode does not raise to its caller, an accepted attempt is
\* not followed by further attempts, and the request increments at most one
\* outcome counter.
C27_ResetDuringDecode == C27_NoRaise /\ C27_NoContinuedCascade /\ C27_OneOutcome

\* the outcome counter that stands for each label, as the claim pairs them
CounterOfLabel ==
    [l \in TierLabels("CV2") |-> "cv2_success"]
      @@ [l \in TierLabels("CV2_CURVED") |-> "cv2_curved_success"]
      @@ [l \in TierLabels("PYZBAR") |-> "pyzbar_success"]
      @@ [l \in TierLabels("QREADER_S") |-> "qreader_small_success"]
      @@ [l \in TierLabels("QREADER_M") |-> "qreader_medium_success"]
      @@ [l \in Sentinels |-> "total_failures"]

\* C28: a decode that has ended returned a label of the six families and
\* incremented exactly the outcome counter of that label: cv2_success for
\* CV2_<VARIANT>, cv2_curved_success for CV2_CURVED_<VARIANT>,
\* pyzbar_success for PYZBAR_<VARIANT>, qreader_small_success for
\* QREADER_S_<VARIANT>, qreader_medium_success for QREADER_M_<VARIANT> and
\* total_failures for "ERROR" and "FAILED_ALL_METHODS".
C28_CounterMatchesLabel ==
    \A w \in Workers :
      Ended(w) =>
        /\ loc[w].label \in DOMAIN CounterOfLabel
        /\ loc[w].bumped = <<CounterOfLabel[loc[w].label]>>

\* a decode has just ended on the curved detector and counted it, after an
\* earlier decode that ended on a sentinel and counted a failure
C28_Witness ==
    \E w \in Workers :
      /\ Ended(w) /\ loc[w].label \in TierLabels("CV2_CURVED")
      /\ loc[w].bumped = <<"cv2_curved_success">>
      /\ metrics["cv2_curved_success"] = 1
      /\ metrics["total_failures"] = 1

\* the three outcome counters of the hybrid service
HybridOutcomeSum ==
    hybrid.metrics["small_success"] + hybrid.metrics["medium_success"]
      + hybrid.metrics["total_failures"]

\* C29 (first part): total_requests is the number of POST /detect requests
C29_TotalIsRequests == hybrid.metrics["total_requests"] = hybrid.detects

\* C29 (second part): the outcome counters add up to that number
C29_OutcomesAddUp == HybridOutcomeSum = hybrid.detects

\* C29 (third part): no request is counted as a success and as a failure
C29_NotBoth ==
    ~("total_failures" \in Last_.counted
        /\ Last_.counted \cap {"small_success", "medium_success"} # {})

\* C29: after N completed POST /detect requests of the hybrid service,
\* whatever went wrong in them, total_requests is N, the outcome counters
\* small_success + medium_success + total_failures add up to N, and no
\* request was counted both as a success and as a failure.
C29_EveryRequestCountedOnce ==
    C29_TotalIsRequests /\ C29_OutcomesAddUp /\ C29_NotBoth

\* C30: in the hybrid service a response that reports success = true carries
\* a decoded string in its data field, and a detection whose first result
\* element is None is neither reported nor counted as a success.
C30_SuccessCarriesPayload ==
    /\ (Last_.status = 200 /\ Last_.success) => Last_.data # None
    /\ \A c \in {"small", "medium"} :
         LET r == IF c = "small" THEN Last_.small_result ELSE Last_.medium_result
         IN (c \in Last_.invoked /\ r.data = None) =>
              /\ Last_.model_used # c
              /\ (c \o "_success") \notin Last_.counted

====
